---- MODULE Spec2Model ----
(***************************************************************************)
(* Model of the call-graph panel of rlm-code (web/js/graph.js): the        *)
(* module-level state of the Graph object, its public operations, the DOM  *)
(* event handlers it installs and the d3 force simulation it drives.       *)
(*                                                                         *)
(* Node objects live in a heap because the code shares them by reference:  *)
(* the unfiltered view lays out the master objects themselves, a           *)
(* neighbourhood lays out clones.  An object is named <<g, i>>: it was     *)
(* created for the g-th _draw from the i-th entry of the master list.      *)
(***************************************************************************)
EXTENDS Integers, Sequences, FiniteSets, TLC

(* ---------------------------- bounds ----------------------------------- *)
MaxNodes    == 3      \* nodes in the loaded data set, ids 1..MaxNodes
MaxEdges    == 2      \* edges in the loaded data set
MaxDraws    == 3      \* _draw calls (simulations created) in one run
MaxDrags    == 2      \* drag gestures begun in one run
MaxDepth    == 16     \* innermost frames kept of the call stack of a user event
MaxShows    == 3      \* Code.show / Code.showFile calls in one run
MaxDetails  == 3      \* Details.showSymbol / Details.showFile calls in one run
MaxSearches == 3      \* non-empty input events of the search box in one run
MaxNavs     == 2      \* user events that call navigateToSymbol in one run
MaxFrames   == 2      \* navigateToSymbol frames of one user event that reach the fetch
FileLines   == 3      \* lines of a source file

(* ---------------------------- values ----------------------------------- *)
GhostId == MaxNodes + 1          \* an id that no loaded node has
Ids     == 1..GhostId
Null    == 0                     \* null / undefined id
Paths   == {0, 1}                \* file paths

NoObj == <<0, 0>>
NoFile  == 0 - 1                 \* null file path

\* positions (x,y taken together) and pins (fx,fy taken together)
Undef     == [k |-> "undef", s |-> 0]      \* undefined / null
Seed(s)   == [k |-> "seed",  s |-> s]      \* phyllotaxis seed of simulation s
Ticked(s) == [k |-> "tick",  s |-> s]      \* moved by a tick of simulation s
Pointer   == [k |-> "ptr",   s |-> 0]      \* pointer position of a drag event

Range(f) == {f[i] : i \in DOMAIN f}

\* an edge endpoint: a bare id, or a reference to a node object
Bare(id) == [ref |-> FALSE, id |-> id, obj |-> NoObj]
Ref(o)   == [ref |-> TRUE, id |-> Null, obj |-> o]

(* ------------------------ data from /api/graph ------------------------- *)
KindOf(i) == IF i % 3 = 0 THEN "class" ELSE IF i % 3 = 1 THEN "function" ELSE "method"

DataNode(i) ==
  [id |-> i, name |-> i, kind |-> KindOf(i), filePath |-> i % 2,
   pagerank |-> i, betweenness |-> i + 1, inDegree |-> i + 2, outDegree |-> i + 3,
   pos |-> Undef, pin |-> Undef, vel |-> "undef"]

EdgeKind(s, t) == IF s < t THEN "call" ELSE "reference"

DataEdge(s, t) == [source |-> Bare(s), target |-> Bare(t), kind |-> EdgeKind(s, t)]

EdgeCode(e) == e.source.id * (GhostId + 1) + e.target.id

\* edge lists of the data set: endpoints may name an id no node has
DataEdgeLists ==
  LET U == {DataEdge(s, t) : s \in Ids, t \in Ids}
      L == UNION {[1..n -> U] : n \in 0..MaxEdges}
  IN {es \in L : \A i \in DOMAIN es : \A j \in DOMAIN es :
                    i < j => EdgeCode(es[i]) < EdgeCode(es[j])}

DataNodes == [i \in 1..MaxNodes |-> DataNode(i)]

Datasets == {[nodes |-> DataNodes, edges |-> es] : es \in DataEdgeLists}

\* one data set: a resolved edge 1 -> 2, an edge of 2 to an id no node has,
\* and the other nodes unconnected
ScenarioData == {[nodes |-> DataNodes,
                  edges |-> <<DataEdge(1, 2), DataEdge(2, GhostId)>>]}

\* a malformed data set: the last node repeats the id of the first
DupNodes ==
  [i \in 1..MaxNodes |->
     IF i = MaxNodes THEN [DataNode(1) EXCEPT !.name = MaxNodes] ELSE DataNode(i)]

DupData == {[nodes |-> DupNodes, edges |-> <<DataEdge(1, 2)>>]}

(* ------------------------ data from /api/tree -------------------------- *)
\* one directory with two files; the first file holds a class and, under it,
\* a function, the second file a method
RowParent == <<0, 1, 2, 3, 1, 5>>         \* the row above each row, 0 for none
TreeRows  == DOMAIN RowParent
RowType(r) == IF r = 1 THEN "dir" ELSE IF r \in {2, 5} THEN "file" ELSE "symbol"

\* row.dataset.nodeId: node.id || node.path || node.name
FileKey(p) == 10 + p
DirKey     == 20
RowKey(r) ==
  IF r = 1 THEN DirKey
  ELSE IF r = 2 THEN FileKey(1)
  ELSE IF r = 5 THEN FileKey(0)
  ELSE IF r = 3 THEN 3 ELSE IF r = 4 THEN 1 ELSE 2
TreeKeys == {RowKey(r) : r \in TreeRows}

Children(r) == {c \in TreeRows : RowParent[c] = r}
Parents     == {r \in TreeRows : Children(r) # {}}     \* hasChildren

\* the rows whose children list holds row r, at any depth
RECURSIVE Ancestors(_)
Ancestors(r) ==
  IF RowParent[r] = 0 THEN {} ELSE {RowParent[r]} \cup Ancestors(RowParent[r])

(* ------------------------ other panels' values ------------------------- *)
\* the details panel: no call yet
NoCall == [view |-> "none", call |-> "none", arg |-> Null]

\* the search box: non-empty queries, and the emptied dropdown
Queries   == {1, 2}
NoResults == [kind |-> "empty", q |-> Null, seq |-> 0]
NoTimer   == [q |-> Null, seq |-> 0]

(* ---------------------------- state ------------------------------------ *)
VARIABLES
  inited,          \* Graph.init has run
  loaded,          \* the data handed to Graph.init, as it was
  hasOnSelect,     \* _callbacks.onSelect is set
  heap,            \* node objects
  allNodes,        \* _allNodes: objects, in order
  allEdges,        \* _allEdges: edge records, in order
  nodeMap,         \* _nodeMap: id -> object
  selectedId,      \* _selectedId
  isFiltered,      \* _isFiltered
  focusId,         \* argument of the filterNeighborhood in force, Null if none
  dispNodes,       \* data bound to _nodeEls
  dispEdges,       \* data bound to _edgeEls
  nodeSelected,    \* per node element: circle has class "selected"
  edgeHighlighted, \* per edge element: class "highlighted"
  circleDim,       \* per node element: circle opacity 0.15
  labelHidden,     \* per node element: label display "none"
  edgeDim,         \* per edge element: opacity 0.05
  curSim,          \* _simulation (0: undefined)
  sims,            \* the simulations created so far
  gestures,        \* drag gestures in flight, by subject
  dragCount,       \* drag gestures begun so far
  resetHidden,     \* #btn-reset-graph has class "hidden"
  status,          \* #graph-status text
  op,              \* the last call or click, its argument and whether it
                   \* changed _selectedId (layout events leave it alone)
  log,             \* what that call did, in order
  stack,           \* app.js: the frames of the call chain a user event started
  graphPanelHidden,\* code.js: #graph-panel has class "hidden"
  codePanelHidden, \* #code-panel has class "hidden"
  codeHeader,      \* the file named in #code-filepath
  currentFile,     \* _currentFile
  codeTable,       \* what #code-table holds
  sourceCache,     \* the files with an entry in _sourceCache
  symbolCache,     \* the files with an entry in _symbolCache
  loads,           \* show/showFile calls waiting in _fetchFileData, oldest first
  shows,           \* show/showFile calls made so far
  lastCall,        \* the most recent show/showFile call, its arguments
  detailsHidden,   \* details.js: #sidebar-right has class "hidden"
  detailsContent,  \* what #details-content holds
  detailsReqs,     \* showSymbol/showFile calls waiting for their response
  detailsCalls,    \* showSymbol/showFile calls made so far
  detailsLast,     \* the most recent showSymbol/showFile call
  toggleOpen,      \* tree.js: the rows whose toggle has class "open"
  collapsed,       \* the rows whose children list has class "collapsed"
  rowActive,       \* the rows with class "active"
  activeRow,       \* _activeRow (0: null)
  inputValue,      \* search.js: the trimmed value of #search-input
  debounceTimer,   \* the query of the pending timeout, NoTimer if none is pending
  searchReqs,      \* API.search calls in flight, oldest first
  searches,        \* non-empty input events so far
  resultsHidden,   \* #search-results has class "hidden"
  resultsShown,    \* what #search-results holds
  navReqs,         \* app.js: navigateToSymbol calls waiting for API.symbol
  navs,            \* user events so far that called navigateToSymbol
  ev               \* the last call or response of a panel other than the graph

vars == <<inited, loaded, hasOnSelect, heap, allNodes, allEdges, nodeMap,
          selectedId, isFiltered, focusId, dispNodes, dispEdges, nodeSelected,
          edgeHighlighted, circleDim, labelHidden, edgeDim, curSim, sims,
          gestures, dragCount, resetHidden, status, op, log, stack,
          graphPanelHidden, codePanelHidden, codeHeader, currentFile,
          codeTable, sourceCache, symbolCache, loads, shows, lastCall,
          detailsHidden, detailsContent, detailsReqs, detailsCalls, detailsLast,
          toggleOpen, collapsed, rowActive, activeRow,
          inputValue, debounceTimer, searchReqs, searches, resultsHidden,
          resultsShown, navReqs, navs, ev>>

dataVars  == <<loaded, hasOnSelect, allNodes, allEdges, nodeMap>>
drawVars  == <<dispNodes, dispEdges, circleDim, labelHidden, edgeDim>>
styleVars == <<nodeSelected, edgeHighlighted>>
hostVars  == <<resetHidden, status>>
codeVars  == <<graphPanelHidden, codePanelHidden, codeHeader, currentFile,
               codeTable, sourceCache, symbolCache, loads, shows, lastCall>>
detailsVars == <<detailsHidden, detailsContent, detailsReqs, detailsCalls,
                 detailsLast>>
treeVars  == <<toggleOpen, collapsed, rowActive, activeRow>>
searchVars == <<inputValue, debounceTimer, searchReqs, searches, resultsHidden,
                resultsShown>>
navVars   == <<navReqs, navs>>
panelVars == <<codeVars, detailsVars, treeVars, searchVars, navVars, ev>>
appVars   == <<stack, panelVars>>
graphVars == <<inited, dataVars, heap, selectedId, isFiltered, focusId, drawVars,
               styleVars, curSim, sims, gestures, dragCount, hostVars, op, log>>

NoStatus == [neighborhood |-> FALSE, nodes |-> 0, edges |-> 0]

Init ==
  /\ inited = FALSE
  /\ loaded = [nodes |-> <<>>, edges |-> <<>>]
  /\ hasOnSelect = FALSE
  /\ heap = <<>>
  /\ allNodes = <<>>
  /\ allEdges = <<>>
  /\ nodeMap = <<>>
  /\ selectedId = Null
  /\ isFiltered = FALSE
  /\ focusId = Null
  /\ dispNodes = <<>>
  /\ dispEdges = <<>>
  /\ nodeSelected = <<>>
  /\ edgeHighlighted = <<>>
  /\ circleDim = <<>>
  /\ labelHidden = <<>>
  /\ edgeDim = <<>>
  /\ curSim = 0
  /\ sims = <<>>
  /\ gestures = {}
  /\ dragCount = 0
  /\ resetHidden = TRUE
  /\ status = NoStatus
  /\ op = [name |-> "none", arg |-> Null, changed |-> FALSE]
  /\ log = <<>>
  /\ stack = <<>>
  /\ graphPanelHidden = FALSE
  /\ codePanelHidden = TRUE
  /\ codeHeader = NoFile
  /\ currentFile = NoFile
  /\ codeTable = [kind |-> "none", file |-> NoFile, focus |-> {}]
  /\ sourceCache = {}
  /\ symbolCache = {}
  /\ loads = <<>>
  /\ shows = 0
  /\ lastCall = [fn |-> "none", file |-> NoFile, start |-> Null, end |-> Null]
  /\ detailsHidden = TRUE
  /\ detailsContent = NoCall
  /\ detailsReqs = <<>>
  /\ detailsCalls = 0
  /\ detailsLast = NoCall
  /\ toggleOpen = Parents
  /\ collapsed = {}
  /\ rowActive = {}
  /\ activeRow = 0
  /\ inputValue = Null
  /\ debounceTimer = NoTimer
  /\ searchReqs = <<>>
  /\ searches = 0
  /\ resultsHidden = TRUE
  /\ resultsShown = NoResults
  /\ navReqs = <<>>
  /\ navs = 0
  /\ ev = [name |-> "none", arg |-> Null, full |-> FALSE, hid |-> FALSE,
           rendered |-> FALSE]

(* ---------------------------- helpers ---------------------------------- *)

\* e.source.id || e.source
EndId(h, ep) == IF ep.ref THEN h[ep.obj].id ELSE ep.id

IdsOf(h, nodes) == {h[nodes[i]].id : i \in DOMAIN nodes}

\* _draw: nodeSet.has(...) && nodeSet.has(...)
IsVisible(h, nodes, e) ==
  /\ EndId(h, e.source) \in IdsOf(h, nodes)
  /\ EndId(h, e.target) \in IdsOf(h, nodes)

\* a draw that keeps every edge it is given
VisibleEdgesUnfiltered(h, nodes, edges) == edges

VisibleEdges(h, nodes, edges) == SelectSeq(edges, LAMBDA e : IsVisible(h, nodes, e))

\* d3.forceLink(...).id(d => d.id): a bare endpoint is replaced, in the edge
\* object itself, by the node object with that id (the last one of the list)
FindNode(h, nodes, id) ==
  LET I == {i \in DOMAIN nodes : h[nodes[i]].id = id}
  IN nodes[CHOOSE i \in I : \A j \in I : j <= i]

ResolveEnd(h, nodes, ep) == IF ep.ref THEN ep ELSE Ref(FindNode(h, nodes, ep.id))

ResolveEdge(h, nodes, e) ==
  [source |-> ResolveEnd(h, nodes, e.source),
   target |-> ResolveEnd(h, nodes, e.target),
   kind   |-> e.kind]

\* the edge array handed to _draw, after the link force has bound its
\* visible members
LinkForce(h, nodes, edges) ==
  [i \in DOMAIN edges |->
     IF IsVisible(h, nodes, edges[i]) THEN ResolveEdge(h, nodes, edges[i])
     ELSE edges[i]]

\* d3.forceSimulation(nodes) as simulation s: a pinned node is put on its
\* pin, a node without position is seeded, a missing velocity becomes 0
InitializeNode(n, s) ==
  LET p == IF n.pin # Undef THEN n.pin ELSE n.pos
  IN [n EXCEPT !.pos = IF p = Undef THEN Seed(s) ELSE p,
               !.vel = IF n.vel = "undef" THEN "zero" ELSE n.vel]

InitializeNodes(h, nodes, s) ==
  [o \in DOMAIN h |-> IF o \in Range(nodes) THEN InitializeNode(h[o], s) ELSE h[o]]

\* a simulation starts running, at rest target, over the node array it got
NewSim(nodes) == [running |-> TRUE, alphaTarget |-> 0, nodes |-> nodes]

\* a replacement that leaves the previous simulation running
StopSimSkipped(ss, c) == ss

\* _simulation.stop(), guarded by "if (_simulation)"
StopSim(ss, c) == IF c = 0 THEN ss ELSE [ss EXCEPT ![c].running = FALSE]

\* objects still referenced by the program
Restrict(h, live) == [o \in (DOMAIN h) \cap live |-> h[o]]

AllFalse(s) == [i \in DOMAIN s |-> FALSE]

\* for (const n of _allNodes) _nodeMap[n.id] = n
BuildNodeMap(h, nodes) == [id \in IdsOf(h, nodes) |-> FindNode(h, nodes, id)]

\* a selection test turned round: d.id !== id
SelectedClassInverted(h, nodes, id) == [i \in DOMAIN nodes |-> h[nodes[i]].id # id]

\* a selection that falls back on the first node when no id matches
SelectedClassFallback(h, nodes, id) ==
  [i \in DOMAIN nodes |->
     h[nodes[i]].id = id \/ (i = 1 /\ id \notin IdsOf(h, nodes))]

\* classed("selected", d => d.id === id)
SelectedClass(h, nodes, id) == [i \in DOMAIN nodes |-> h[nodes[i]].id = id]

\* a highlight that looks at the source end only
HighlightedClassSourceOnly(h, edges, id) ==
  [i \in DOMAIN edges |-> id # Null /\ EndId(h, edges[i].source) = id]

\* classed("highlighted", d => id && (src === id || tgt === id))
HighlightedClass(h, edges, id) ==
  [i \in DOMAIN edges |->
     /\ id # Null
     /\ \/ EndId(h, edges[i].source) = id
        \/ EndId(h, edges[i].target) = id]

\* a notification that fires for the wrong case: if (!id && ...)
NotifyOnNullOnly(cb, id) ==
  IF id = Null /\ cb
  THEN <<[ev |-> "onSelect", id |-> id, obj |-> NoObj, pos |-> Undef]>>
  ELSE <<>>

\* a notification without the id test: if (_callbacks.onSelect) ...
NotifyAlways(cb, id) ==
  IF cb
  THEN <<[ev |-> "onSelect", id |-> id, obj |-> NoObj, pos |-> Undef]>>
  ELSE <<>>

\* a notification that calls the callback twice
NotifyTwice(cb, id) ==
  IF id # Null /\ cb
  THEN <<[ev |-> "onSelect", id |-> id, obj |-> NoObj, pos |-> Undef],
         [ev |-> "onSelect", id |-> id, obj |-> NoObj, pos |-> Undef]>>
  ELSE <<>>

\* if (id && _callbacks.onSelect) _callbacks.onSelect(id)
Notify(cb, id) ==
  IF id # Null /\ cb
  THEN <<[ev |-> "onSelect", id |-> id, obj |-> NoObj, pos |-> Undef]>>
  ELSE <<>>

DrawEvent == [ev |-> "draw", id |-> Null, obj |-> NoObj, pos |-> Undef]

\* a neighbour set that forgets the callers (no "if (tgt === symbolId)")
NeighborsCalleesOnly(h, edges, symbolId) ==
  {symbolId}
    \cup {EndId(h, edges[i].target) :
            i \in {j \in DOMAIN edges : EndId(h, edges[j].source) = symbolId}}

\* filterNeighborhood: the neighbour-id set
Neighbors(h, edges, symbolId) ==
  {symbolId}
    \cup {EndId(h, edges[i].target) :
            i \in {j \in DOMAIN edges : EndId(h, edges[j].source) = symbolId}}
    \cup {EndId(h, edges[i].source) :
            i \in {j \in DOMAIN edges : EndId(h, edges[j].target) = symbolId}}

\* a clone that does not carry the pagerank over
CloneNodeDropsRank(n) == [n EXCEPT !.pos = Undef, !.vel = "zero", !.pagerank = 0]

\* { ...n, x: undefined, y: undefined, vx: 0, vy: 0 }
CloneNode(n) == [n EXCEPT !.pos = Undef, !.vel = "zero"]

\* an edge copy that keeps the endpoints as they are
NormalizeEdgeKeepsEnds(h, e) == e

\* { source: e.source.id || e.source, target: e.target.id || e.target, kind: e.kind }
NormalizeEdge(h, e) ==
  [source |-> Bare(EndId(h, e.source)),
   target |-> Bare(EndId(h, e.target)),
   kind   |-> e.kind]

\* _allNodes.filter(n => neighbors.has(n.id)), as positions in _allNodes
SubIndexes(h, nodes, nb) ==
  SelectSeq([i \in DOMAIN nodes |-> i], LAMBDA i : h[nodes[i]].id \in nb)

\* _allEdges.filter(both ends in neighbors).map(normalize)
SubEdges(h, edges, nb) ==
  LET kept == SelectSeq(edges, LAMBDA e : /\ EndId(h, e.source) \in nb
                                         /\ EndId(h, e.target) \in nb)
  IN [i \in DOMAIN kept |-> NormalizeEdge(h, kept[i])]

\* a subset that reuses the objects of the draw before instead of new ones
ClonesAliasPrevious(s, idx) == [k \in DOMAIN idx |-> <<s - 1, idx[k]>>]

\* the clones made for draw s of the master entries idx
Clones(s, idx) == [k \in DOMAIN idx |-> <<s, idx[k]>>]

WithClones(h, master, clones) ==
  [o \in (DOMAIN h) \cup Range(clones) |->
     IF o \in Range(clones) THEN CloneNode(h[master[o[2]]]) ELSE h[o]]

Live(master, shown, gs) == Range(master) \cup Range(shown) \cup gs

(* ---------------------------- operations ------------------------------- *)

\* Graph.init(svgSelector, data, callbacks)
GraphInit(data, cb) ==
  /\ ~inited
  /\ LET nodes == [i \in DOMAIN data.nodes |-> <<1, i>>]
         h0    == [o \in Range(nodes) |-> data.nodes[o[2]]]
         bound == LinkForce(h0, nodes, data.edges)
         shown == VisibleEdges(h0, nodes, bound)
     IN /\ inited' = TRUE
        /\ loaded' = data
        /\ hasOnSelect' = cb
        /\ allNodes' = nodes
        /\ allEdges' = bound
        /\ nodeMap' = BuildNodeMap(h0, nodes)
        /\ heap' = InitializeNodes(h0, nodes, 1)
        /\ dispNodes' = nodes
        /\ dispEdges' = shown
        /\ nodeSelected' = AllFalse(nodes)
        /\ edgeHighlighted' = AllFalse(shown)
        /\ circleDim' = AllFalse(nodes)
        /\ labelHidden' = AllFalse(nodes)
        /\ edgeDim' = AllFalse(shown)
        /\ curSim' = 1
        /\ sims' = <<NewSim(nodes)>>
        /\ status' = [neighborhood |-> FALSE, nodes |-> Len(nodes),
                      edges |-> Len(data.edges)]
        /\ op' = [name |-> "init", arg |-> Null, changed |-> FALSE]
        /\ log' = <<DrawEvent>>
        /\ UNCHANGED <<appVars, selectedId, isFiltered, focusId, gestures,
                       dragCount, resetHidden>>

\* _select(id), but for the notification
Select(id) ==
  /\ selectedId' = id
  /\ nodeSelected' = SelectedClass(heap, dispNodes, id)
  /\ edgeHighlighted' = HighlightedClass(heap, dispEdges, id)

\* click on a node element
NodeClick(i) ==
  /\ inited
  /\ i \in DOMAIN dispNodes
  /\ Select(heap[dispNodes[i]].id)
  /\ log' = Notify(hasOnSelect, heap[dispNodes[i]].id)
  /\ op' = [name |-> "click", arg |-> heap[dispNodes[i]].id,
            changed |-> heap[dispNodes[i]].id # selectedId]
  /\ UNCHANGED <<appVars, inited, dataVars, heap, isFiltered, focusId, drawVars, curSim,
                 sims, gestures, dragCount, hostVars>>

\* a background click that also leaves the neighbourhood
BackgroundClickUnfilters ==
  /\ inited
  /\ Select(Null)
  /\ isFiltered' = FALSE
  /\ log' = Notify(hasOnSelect, Null)
  /\ op' = [name |-> "background", arg |-> Null, changed |-> selectedId # Null]
  /\ UNCHANGED <<appVars, inited, dataVars, heap, focusId, drawVars, curSim,
                 sims, gestures, dragCount, hostVars>>

\* click on the svg background
BackgroundClick ==
  /\ inited
  /\ Select(Null)
  /\ log' = Notify(hasOnSelect, Null)
  /\ op' = [name |-> "background", arg |-> Null, changed |-> selectedId # Null]
  /\ UNCHANGED <<appVars, inited, dataVars, heap, isFiltered, focusId, drawVars, curSim,
                 sims, gestures, dragCount, hostVars>>

\* selectNode: the node the viewport is moved to, if any
Recenter(h, map, symbolId) ==
  IF symbolId \in DOMAIN map /\ h[map[symbolId]].pos # Undef
  THEN <<[ev |-> "center", id |-> symbolId, obj |-> map[symbolId],
          pos |-> h[map[symbolId]].pos]>>
  ELSE <<>>

\* Graph.selectNode(symbolId)
SelectNode(symbolId) ==
  /\ inited
  /\ Select(symbolId)
  /\ log' = Notify(hasOnSelect, symbolId) \o Recenter(heap, nodeMap, symbolId)
  /\ op' = [name |-> "selectNode", arg |-> symbolId, changed |-> symbolId # selectedId]
  /\ UNCHANGED <<appVars, inited, dataVars, heap, isFiltered, focusId, drawVars, curSim,
                 sims, gestures, dragCount, hostVars>>

\* a highlightFile that also drops the selection styling
HighlightFileUnstyles(filePath) ==
  /\ inited
  /\ circleDim' = [i \in DOMAIN dispNodes |-> heap[dispNodes[i]].filePath # filePath]
  /\ labelHidden' = [i \in DOMAIN dispNodes |-> heap[dispNodes[i]].filePath # filePath]
  /\ edgeDim' = [i \in DOMAIN dispEdges |-> TRUE]
  /\ nodeSelected' = AllFalse(dispNodes)
  /\ op' = [name |-> "highlightFile", arg |-> filePath, changed |-> FALSE]
  /\ log' = <<>>
  /\ UNCHANGED <<appVars, inited, dataVars, heap, selectedId, isFiltered, focusId,
                 dispNodes, dispEdges, edgeHighlighted, curSim, sims, gestures,
                 dragCount, hostVars>>

\* Graph.highlightFile(filePath)
HighlightFile(filePath) ==
  /\ inited
  /\ circleDim' = [i \in DOMAIN dispNodes |-> heap[dispNodes[i]].filePath # filePath]
  /\ labelHidden' = [i \in DOMAIN dispNodes |-> heap[dispNodes[i]].filePath # filePath]
  /\ edgeDim' = [i \in DOMAIN dispEdges |-> TRUE]
  /\ op' = [name |-> "highlightFile", arg |-> filePath, changed |-> FALSE]
  /\ log' = <<>>
  /\ UNCHANGED <<appVars, inited, dataVars, heap, selectedId, isFiltered, focusId,
                 dispNodes, dispEdges, styleVars, curSim, sims, gestures,
                 dragCount, hostVars>>

\* a filterNeighborhood that forgets to show the reset button
FilterNeighborhoodKeepsButton(symbolId) ==
  /\ inited
  /\ Len(sims) < MaxDraws
  /\ LET s        == Len(sims) + 1
         nb       == Neighbors(heap, allEdges, symbolId)
         subNodes == Clones(s, SubIndexes(heap, allNodes, nb))
         h0       == WithClones(heap, allNodes, subNodes)
         subEdges == SubEdges(heap, allEdges, nb)
         shown    == VisibleEdges(h0, subNodes, LinkForce(h0, subNodes, subEdges))
         h1       == InitializeNodes(h0, subNodes, s)
     IN /\ sims' = Append(StopSim(sims, curSim), NewSim(subNodes))
        /\ curSim' = s
        /\ heap' = Restrict(h1, Live(allNodes, subNodes, gestures))
        /\ dispNodes' = subNodes
        /\ dispEdges' = shown
        /\ circleDim' = AllFalse(subNodes)
        /\ labelHidden' = AllFalse(subNodes)
        /\ edgeDim' = AllFalse(shown)
        /\ isFiltered' = TRUE
        /\ focusId' = symbolId
        /\ status' = [neighborhood |-> TRUE, nodes |-> Len(subNodes),
                      edges |-> Len(subEdges)]
        /\ selectedId' = symbolId
        /\ nodeSelected' = SelectedClass(h1, subNodes, symbolId)
        /\ edgeHighlighted' = HighlightedClass(h1, shown, symbolId)
        /\ log' = <<DrawEvent>> \o Notify(hasOnSelect, symbolId)
        /\ op' = [name |-> "filterNeighborhood", arg |-> symbolId,
                  changed |-> symbolId # selectedId]
        /\ UNCHANGED <<appVars, inited, dataVars, gestures, dragCount, resetHidden>>

\* Graph.filterNeighborhood(symbolId)
FilterNeighborhood(symbolId) ==
  /\ inited
  /\ Len(sims) < MaxDraws
  /\ LET s        == Len(sims) + 1
         nb       == Neighbors(heap, allEdges, symbolId)
         subNodes == Clones(s, SubIndexes(heap, allNodes, nb))
         h0       == WithClones(heap, allNodes, subNodes)
         subEdges == SubEdges(heap, allEdges, nb)
         shown    == VisibleEdges(h0, subNodes, LinkForce(h0, subNodes, subEdges))
         h1       == InitializeNodes(h0, subNodes, s)
     IN /\ sims' = Append(StopSim(sims, curSim), NewSim(subNodes))
        /\ curSim' = s
        /\ heap' = Restrict(h1, Live(allNodes, subNodes, gestures))
        /\ dispNodes' = subNodes
        /\ dispEdges' = shown
        /\ circleDim' = AllFalse(subNodes)
        /\ labelHidden' = AllFalse(subNodes)
        /\ edgeDim' = AllFalse(shown)
        /\ isFiltered' = TRUE
        /\ focusId' = symbolId
        /\ resetHidden' = FALSE
        /\ status' = [neighborhood |-> TRUE, nodes |-> Len(subNodes),
                      edges |-> Len(subEdges)]
        /\ selectedId' = symbolId
        /\ nodeSelected' = SelectedClass(h1, subNodes, symbolId)
        /\ edgeHighlighted' = HighlightedClass(h1, shown, symbolId)
        /\ log' = <<DrawEvent>> \o Notify(hasOnSelect, symbolId)
        /\ op' = [name |-> "filterNeighborhood", arg |-> symbolId,
                  changed |-> symbolId # selectedId]
        /\ UNCHANGED <<appVars, inited, dataVars, gestures, dragCount>>

\* a resetView without its guard
ResetNeverReturnsEarly(filtered) == FALSE

\* resetView: if (!_isFiltered) return
ResetReturnsEarly(filtered) == ~filtered

\* Graph.resetView()
ResetView ==
  /\ inited
  /\ op' = [name |-> "resetView", arg |-> Null, changed |-> FALSE]
  /\ IF ResetReturnsEarly(isFiltered)
     THEN /\ log' = <<>>
          /\ UNCHANGED <<appVars, inited, dataVars, heap, selectedId, isFiltered, focusId,
                         drawVars, styleVars, curSim, sims, gestures, dragCount,
                         hostVars>>
     ELSE /\ Len(sims) < MaxDraws
          /\ LET s          == Len(sims) + 1
                 freshNodes == Clones(s, [i \in DOMAIN allNodes |-> i])
                 h0         == WithClones(heap, allNodes, freshNodes)
                 freshEdges == [i \in DOMAIN allEdges |-> NormalizeEdge(heap, allEdges[i])]
                 bound      == LinkForce(h0, freshNodes, freshEdges)
                 shown      == VisibleEdges(h0, freshNodes, bound)
                 h1         == InitializeNodes(h0, freshNodes, s)
             IN /\ allNodes' = freshNodes
                /\ allEdges' = bound
                /\ nodeMap' = BuildNodeMap(h0, freshNodes)
                /\ sims' = Append(StopSim(sims, curSim), NewSim(freshNodes))
                /\ curSim' = s
                /\ heap' = Restrict(h1, Live(freshNodes, freshNodes, gestures))
                /\ dispNodes' = freshNodes
                /\ dispEdges' = shown
                /\ nodeSelected' = AllFalse(freshNodes)
                /\ edgeHighlighted' = AllFalse(shown)
                /\ circleDim' = AllFalse(freshNodes)
                /\ labelHidden' = AllFalse(freshNodes)
                /\ edgeDim' = AllFalse(shown)
                /\ isFiltered' = FALSE
                /\ focusId' = Null
                /\ resetHidden' = TRUE
                /\ status' = [neighborhood |-> FALSE, nodes |-> Len(freshNodes),
                              edges |-> Len(freshEdges)]
                /\ log' = <<DrawEvent>>
                /\ UNCHANGED <<appVars, inited, loaded, hasOnSelect, selectedId, gestures,
                               dragCount>>

\* event.active of a drag event on subject o: the other gestures of the drag
\* behaviour that o's element was given (one behaviour per _draw)
Active(gs, o) == Cardinality({g \in gs : g[1] = o[1]})

\* _dragStart(event, d)
DragStart(o) ==
  /\ inited
  /\ o \in Range(dispNodes)
  /\ o \notin gestures
  /\ dragCount < MaxDrags
  /\ dragCount' = dragCount + 1
  /\ gestures' = gestures \cup {o}
  /\ sims' = IF Active(gestures, o) = 0
             THEN [sims EXCEPT ![curSim].alphaTarget = 3, ![curSim].running = TRUE]
             ELSE sims
  /\ heap' = [heap EXCEPT ![o].pin = heap[o].pos]
  /\ UNCHANGED <<appVars, inited, dataVars, selectedId, isFiltered, focusId, drawVars,
                 styleVars, curSim, hostVars, op, log>>

\* _dragging(event, d)
Dragging(o) ==
  /\ o \in gestures
  /\ heap' = [heap EXCEPT ![o].pin = Pointer]
  /\ UNCHANGED <<appVars, inited, dataVars, selectedId, isFiltered, focusId, drawVars,
                 styleVars, curSim, sims, gestures, dragCount, hostVars, op, log>>

\* _dragEnd(event, d)
DragEnd(o) ==
  /\ o \in gestures
  /\ gestures' = gestures \ {o}
  /\ sims' = IF Active(gestures', o) = 0
             THEN [sims EXCEPT ![curSim].alphaTarget = 0]
             ELSE sims
  /\ heap' = Restrict([heap EXCEPT ![o].pin = Undef],
                      Live(allNodes, dispNodes, gestures'))
  /\ UNCHANGED <<appVars, inited, dataVars, selectedId, isFiltered, focusId, drawVars,
                 styleVars, curSim, dragCount, hostVars, op, log>>

\* one step of simulation s: a pinned node sits on its pin, a free node moves
StepNode(n, s) ==
  IF n.pin # Undef THEN [n EXCEPT !.pos = n.pin, !.vel = "zero"]
  ELSE [n EXCEPT !.pos = Ticked(s), !.vel = "moving"]

\* a timer tick of simulation s, followed by _tick
Tick(s) ==
  /\ s \in DOMAIN sims
  /\ sims[s].running
  /\ heap' = [o \in DOMAIN heap |->
               IF o \in Range(sims[s].nodes) THEN StepNode(heap[o], s) ELSE heap[o]]
  /\ UNCHANGED <<appVars, inited, dataVars, selectedId, isFiltered, focusId, drawVars,
                 styleVars, curSim, sims, gestures, dragCount, hostVars, op, log>>

\* simulation s has cooled below alphaMin: its timer stops
Cool(s) ==
  /\ s \in DOMAIN sims
  /\ sims[s].running
  /\ sims[s].alphaTarget = 0
  /\ sims' = [sims EXCEPT ![s].running = FALSE]
  /\ UNCHANGED <<appVars, inited, dataVars, heap, selectedId, isFiltered, focusId,
                 drawVars, styleVars, curSim, gestures, dragCount, hostVars,
                 op, log>>

(* ---------------------------- app.js wiring ---------------------------- *)

\* the functions of a selection chain: navigateToSymbol (app.js),
\* Graph.selectNode and _select (graph.js), and the onSelect callback that
\* app.js hands to Graph.init
Frame(fn, id) == [fn |-> fn, id |-> id, pc |-> 1]

\* the number of statements of each function
Last(fn) ==
  IF fn = "navigateToSymbol" THEN 4     \* selectNode, expandToNode, showSymbol, fetch
  ELSE IF fn = "selectNode" THEN 2      \* _select, recentre
  ELSE IF fn = "_select" THEN 2         \* assign and class, notify
  ELSE 1                                \* onSelect: navigateToSymbol(symbolId)

\* the wiring of the other copy of app.js: its onSelect updates the tree and
\* the details and calls nothing of the chain
CalleeOneWay(f, cb) ==
  IF f.fn = "navigateToSymbol" /\ f.pc = 1 THEN "selectNode"
  ELSE IF f.fn = "selectNode" /\ f.pc = 1 THEN "_select"
  ELSE IF f.fn = "_select" /\ f.pc = 2 /\ f.id # Null /\ cb THEN "onSelect"
  ELSE "none"

\* the function the statement at f.pc calls, "none" if it calls none of the
\* chain
Callee(f, cb) ==
  IF f.fn = "navigateToSymbol" /\ f.pc = 1 THEN "selectNode"
  ELSE IF f.fn = "selectNode" /\ f.pc = 1 THEN "_select"
  ELSE IF f.fn = "_select" /\ f.pc = 2 /\ f.id # Null /\ cb THEN "onSelect"
  ELSE IF f.fn = "onSelect" /\ f.pc = 1 THEN "navigateToSymbol"
  ELSE "none"

Top == stack[Len(stack)]

\* what no step of a selection chain writes
graphFrame == <<inited, dataVars, heap, isFiltered, focusId, drawVars, curSim,
                sims, gestures, dragCount, hostVars, log>>

\* a user event with nothing running: a click on a tree symbol, a search
\* result, a caller/callee of the details or a gutter marker calls
\* navigateToSymbol(id)
SymbolClick(id) ==
  /\ inited
  /\ stack = <<>>
  /\ stack' = <<Frame("navigateToSymbol", id)>>
  /\ op' = [name |-> "navigateToSymbol", arg |-> id, changed |-> id # selectedId]
  /\ UNCHANGED <<panelVars, graphFrame, selectedId, styleVars>>

\* a click on a displayed node, or on the background, calls _select
GraphClick(id) ==
  /\ inited
  /\ stack = <<>>
  /\ id \in IdsOf(heap, dispNodes) \cup {Null}
  /\ stack' = <<Frame("_select", id)>>
  /\ op' = [name |-> IF id = Null THEN "background" ELSE "click", arg |-> id,
            changed |-> id # selectedId]
  /\ UNCHANGED <<panelVars, graphFrame, selectedId, styleVars>>

\* stands, at the bottom of the stack, for the outer frames that are not kept
Deeper == [fn |-> "deeper", id |-> Null, pc |-> 1]

\* push a frame; of a stack of MaxDepth frames the outermost are forgotten
Push(st, f) ==
  IF Len(st) < MaxDepth THEN Append(st, f)
  ELSE <<Deeper>> \o SubSeq(st, 3, Len(st)) \o <<f>>

\* the top frame calls the next function of the chain
AppCall ==
  /\ stack # <<>>
  /\ Top.pc <= Last(Top.fn)
  /\ Callee(Top, hasOnSelect) # "none"
  /\ stack' = Push(stack, Frame(Callee(Top, hasOnSelect), Top.id))
  /\ UNCHANGED <<panelVars, graphFrame, op, selectedId, styleVars>>

\* the top frame runs a statement that calls none of the chain; the first
\* statement of _select is the one that writes the graph's state
AppExec ==
  /\ stack # <<>>
  /\ Top.pc <= Last(Top.fn)
  /\ Callee(Top, hasOnSelect) = "none"
  /\ stack' = [stack EXCEPT ![Len(stack)].pc = @ + 1]
  /\ IF Top.fn = "_select" /\ Top.pc = 1
     THEN Select(Top.id)
     ELSE UNCHANGED <<selectedId, styleVars>>
  /\ UNCHANGED <<panelVars, graphFrame, op>>

\* the top frame has run its last statement and returns to its caller
AppReturn ==
  /\ stack # <<>>
  /\ Top.pc > Last(Top.fn)
  /\ IF Len(stack) = 1 THEN TRUE ELSE stack[Len(stack) - 1] # Deeper
  /\ stack' = IF Len(stack) = 1 THEN <<>>
              ELSE [SubSeq(stack, 1, Len(stack) - 1)
                      EXCEPT ![Len(stack) - 1].pc = @ + 1]
  /\ UNCHANGED <<panelVars, graphFrame, op, selectedId, styleVars>>

AppSteps == AppCall \/ AppExec \/ AppReturn

\* the panels wired as app.js wires them, one user event at a time
NextApp ==
  \/ ~inited /\ \E data \in ScenarioData : GraphInit(data, TRUE)
  \/ \E id \in Ids : SymbolClick(id)
  \/ \E id \in Ids \cup {Null} : GraphClick(id)
  \/ AppCall
  \/ AppExec
  \/ AppReturn

SpecApp == Init /\ [][NextApp]_vars /\ WF_vars(AppSteps)

(* ---------------------------- code.js ---------------------------------- *)

\* line ranges a symbol may span
Ranges == {<<1, 1>>, <<2, 3>>}

Ev(name, arg, full, hid, rendered) ==
  [name |-> name, arg |-> arg, full |-> full, hid |-> hid, rendered |-> rendered]

\* the table's contents: nothing yet, the "Loading..." row, the row with the
\* message of a failed load, or the rows of a file's source
LoadingRow  == [kind |-> "loading", file |-> NoFile, focus |-> {}]
ErrorRow(f) == [kind |-> "error", file |-> f, focus |-> {}]

\* the rows _render gives the class code-focus
FocusRows(s, e) ==
  IF s # Null /\ e # Null THEN {r \in 1..FileLines : s <= r /\ r <= e} ELSE {}

\* _render(source, focusStart, focusEnd, symbols)
Rendered(f, s, e) == [kind |-> "source", file |-> f, focus |-> FocusRows(s, e)]

\* the rows of the table's tbody
RowCount(t) ==
  IF t.kind = "none" THEN 0 ELSE IF t.kind = "source" THEN FileLines ELSE 1

\* the rows the same-file branch of show gives the class code-focus
RefocusRows(t, s, e) ==
  LET lo == IF s # Null THEN s ELSE 1
      hi == IF e # Null THEN e ELSE IF s # Null THEN s ELSE 1
  IN {r \in lo..hi : r <= RowCount(t)}

\* show's test: the same file is current and the table has a tbody
SameFileLoaded(cur, t, f) == cur = f /\ t.kind # "none"

Cached(f) == f \in sourceCache /\ f \in symbolCache

RemoveAt(q, i) == SubSeq(q, 1, i - 1) \o SubSeq(q, i + 1, Len(q))

\* the part of show and showFile after the same-file test: the placeholder,
\* _currentFile, and the await of _fetchFileData, which ends within the call's
\* own task when both caches hold the file
StartLoad(f, s, e) ==
  /\ currentFile' = f
  /\ IF Cached(f)
     THEN /\ codeTable' = Rendered(f, s, e)
          /\ loads' = loads
     ELSE /\ codeTable' = LoadingRow
          /\ loads' = Append(loads,
                        [file |-> f, start |-> s, end |-> e,
                         src |-> IF f \in sourceCache THEN "done" ELSE "wait",
                         sym |-> IF f \in symbolCache THEN "done" ELSE "wait",
                         hid |-> FALSE])

\* _showPanel and the header
OpenPanel(f) ==
  /\ graphPanelHidden' = TRUE
  /\ codePanelHidden' = FALSE
  /\ codeHeader' = f

\* Code.show(filePath, focusStart, focusEnd)
CodeShow(f, s, e) ==
  /\ OpenPanel(f)
  /\ shows' = shows + 1
  /\ lastCall' = [fn |-> "show", file |-> f, start |-> s, end |-> e]
  /\ IF SameFileLoaded(currentFile, codeTable, f)
     THEN /\ codeTable' = [codeTable EXCEPT !.focus = RefocusRows(codeTable, s, e)]
          /\ UNCHANGED <<currentFile, loads>>
     ELSE StartLoad(f, s, e)
  /\ UNCHANGED <<sourceCache, symbolCache>>

\* Code.showFile(filePath)
CodeShowFile(f) ==
  /\ OpenPanel(f)
  /\ shows' = shows + 1
  /\ lastCall' = [fn |-> "showFile", file |-> f, start |-> Null, end |-> Null]
  /\ StartLoad(f, Null, Null)
  /\ UNCHANGED <<sourceCache, symbolCache>>

\* Code.hide(); the loads in flight are marked as begun before a hide
CodeHide ==
  /\ codePanelHidden' = TRUE
  /\ graphPanelHidden' = FALSE
  /\ currentFile' = NoFile
  /\ loads' = [i \in DOMAIN loads |-> [loads[i] EXCEPT !.hid = TRUE]]
  /\ UNCHANGED <<codeHeader, codeTable, sourceCache, symbolCache, shows, lastCall>>

\* the table after the await of load l has resolved: the guard on
\* _currentFile, then _render
Resumed(cur, t, l) ==
  IF cur # l.file THEN t ELSE Rendered(l.file, l.start, l.end)

\* what the code viewer's own steps leave alone
notCode == <<graphVars, stack, detailsVars, treeVars, searchVars, navVars>>

\* the response of API.source for load i arrives: success fills
\* _sourceCache and, with the symbols there, resumes the call; a failure
\* rejects the await at once and the catch writes the error row
SourceArrives(i, ok) ==
  /\ i \in DOMAIN loads
  /\ loads[i].src = "wait"
  /\ IF ok
     THEN /\ sourceCache' = sourceCache \cup {loads[i].file}
          /\ IF loads[i].sym = "done"
             THEN /\ codeTable' = Resumed(currentFile, codeTable, loads[i])
                  /\ loads' = RemoveAt(loads, i)
             ELSE /\ codeTable' = codeTable
                  /\ loads' = [loads EXCEPT ![i].src = "done"]
          /\ ev' = Ev("source", loads[i].file, FALSE, loads[i].hid,
                      loads[i].sym = "done" /\ currentFile = loads[i].file)
     ELSE /\ sourceCache' = sourceCache
          /\ codeTable' = ErrorRow(loads[i].file)
          /\ loads' = IF loads[i].sym = "wait"
                      THEN [loads EXCEPT ![i].src = "failed"]
                      ELSE RemoveAt(loads, i)
          /\ ev' = Ev("sourceFailed", loads[i].file, FALSE, loads[i].hid, FALSE)
  /\ UNCHANGED <<graphPanelHidden, codePanelHidden, codeHeader, currentFile,
                 symbolCache, shows, lastCall>>
  /\ UNCHANGED notCode

\* the response of API.file for load i arrives: its then and its catch both
\* fill _symbolCache and resolve, so the outcome makes no difference here
SymbolsArrive(i) ==
  /\ i \in DOMAIN loads
  /\ loads[i].sym = "wait"
  /\ symbolCache' = symbolCache \cup {loads[i].file}
  /\ IF loads[i].src = "done"
     THEN /\ codeTable' = Resumed(currentFile, codeTable, loads[i])
          /\ loads' = RemoveAt(loads, i)
     ELSE /\ codeTable' = codeTable
          /\ loads' = IF loads[i].src = "wait"
                      THEN [loads EXCEPT ![i].sym = "done"]
                      ELSE RemoveAt(loads, i)
  /\ ev' = Ev("symbols", loads[i].file, FALSE, loads[i].hid,
              loads[i].src = "done" /\ currentFile = loads[i].file)
  /\ UNCHANGED <<graphPanelHidden, codePanelHidden, codeHeader, currentFile,
                 sourceCache, shows, lastCall>>
  /\ UNCHANGED notCode

\* a call of Code.show from outside the module
CallShow(f, s, e) ==
  /\ shows < MaxShows
  /\ CodeShow(f, s, e)
  /\ ev' = Ev("show", f, ~SameFileLoaded(currentFile, codeTable, f), FALSE,
              ~SameFileLoaded(currentFile, codeTable, f) /\ Cached(f))
  /\ UNCHANGED notCode

\* a call of Code.showFile from outside the module
CallShowFile(f) ==
  /\ shows < MaxShows
  /\ CodeShowFile(f)
  /\ ev' = Ev("showFile", f, TRUE, FALSE, Cached(f))
  /\ UNCHANGED notCode

\* a call of Code.hide: the back-to-graph button
CallHide ==
  /\ CodeHide
  /\ ev' = Ev("hide", Null, FALSE, FALSE, FALSE)
  /\ UNCHANGED notCode

ShowOps ==
  \/ \E f \in Paths : \E r \in Ranges : CallShow(f, r[1], r[2])
  \/ \E f \in Paths : CallShowFile(f)

\* show and showFile with a network that answers every request
NextShow ==
  \/ ShowOps
  \/ \E i \in 1..MaxShows : SourceArrives(i, TRUE)
  \/ \E i \in 1..MaxShows : SymbolsArrive(i)

SpecShow == Init /\ [][NextShow]_vars

\* the code viewer alone: calls, hides and responses in any order
NextCode ==
  \/ ShowOps
  \/ CallHide
  \/ \E i \in 1..MaxShows : \E ok \in BOOLEAN : SourceArrives(i, ok)
  \/ \E i \in 1..MaxShows : SymbolsArrive(i)

SpecCode == Init /\ [][NextCode]_vars

(* ---------------------------- details.js ------------------------------- *)

\* what the panel holds once the response of a call is in
Shown(view, r) == [view |-> view, call |-> r.call, arg |-> r.arg]

\* the server knows the loaded symbols and every file
Known(r) == r.call = "file" \/ r.arg \in 1..MaxNodes

\* Details.showSymbol(symbolId) / Details.showFile(filePath) up to the await
DetailsShow(call, arg) ==
  /\ detailsHidden' = FALSE
  /\ detailsContent' = [view |-> "loading", call |-> "none", arg |-> Null]
  /\ detailsReqs' = Append(detailsReqs, [call |-> call, arg |-> arg])
  /\ detailsCalls' = detailsCalls + 1
  /\ detailsLast' = [view |-> "rendered", call |-> call, arg |-> arg]

notDetails == <<graphVars, stack, codeVars, treeVars, searchVars, navVars>>

\* a call of Details.showSymbol from outside the module
CallShowSymbol(id) ==
  /\ detailsCalls < MaxDetails
  /\ DetailsShow("symbol", id)
  /\ ev' = [name |-> "showSymbol", arg |-> id]
  /\ UNCHANGED notDetails

\* a call of Details.showFile from outside the module
CallDetailsShowFile(f) ==
  /\ detailsCalls < MaxDetails
  /\ DetailsShow("file", f)
  /\ ev' = [name |-> "detailsShowFile", arg |-> f]
  /\ UNCHANGED notDetails

\* Details.hide(): the close button
DetailsHide ==
  /\ detailsHidden' = TRUE
  /\ ev' = [name |-> "detailsHide", arg |-> Null]
  /\ UNCHANGED <<detailsContent, detailsReqs, detailsCalls, detailsLast>>
  /\ UNCHANGED notDetails

\* the response of call i arrives and the call resumes: _renderSymbol or
\* _renderFile, or the error paragraph of its catch
DetailsArrives(i, ok) ==
  /\ i \in DOMAIN detailsReqs
  /\ ok => Known(detailsReqs[i])
  /\ detailsContent' = Shown(IF ok THEN "rendered" ELSE "error", detailsReqs[i])
  /\ detailsReqs' = RemoveAt(detailsReqs, i)
  /\ ev' = [name |-> "detailsArrives", arg |-> detailsReqs[i].arg]
  /\ UNCHANGED <<detailsHidden, detailsCalls, detailsLast>>
  /\ UNCHANGED notDetails

\* the details panel alone: calls and responses in any order
NextDetails ==
  \/ \E id \in Ids : CallShowSymbol(id)
  \/ \E f \in Paths : CallDetailsShowFile(f)
  \/ DetailsHide
  \/ \E i \in 1..MaxDetails : \E ok \in BOOLEAN : DetailsArrives(i, ok)

SpecDetails == Init /\ [][NextDetails]_vars

(* ---------------------------- tree.js ---------------------------------- *)

\* an activation that leaves the previous row's class in place
ActivatedKeepsOld(act, cur, r) == act \cup {r}

\* _activeRow loses the class "active", the row gets it
Activated(act, cur, r) == (act \ {cur}) \cup {r}

\* an expansion that uncollapses the lists and leaves the toggles alone
ExpandedListsOnly(open, coll, A) == [open |-> open, coll |-> coll \ A]

\* expandToNode's walk up from a row: the children lists A of its ancestors
\* lose "collapsed" and the toggles of their rows get "open"
Expanded(open, coll, A) == [open |-> open \cup A, coll |-> coll \ A]

\* the click handler's toggle of a row with children:
\* isOpen = toggle.classList.toggle("open"), then
\* childrenUl.classList.toggle("collapsed", !isOpen)
Toggled(open, coll, r) ==
  IF r \in open THEN [open |-> open \ {r}, coll |-> coll \cup {r}]
  ELSE [open |-> open \cup {r}, coll |-> coll \ {r}]

\* the callback a click notifies
Callback(r) ==
  IF RowType(r) = "symbol" THEN "onSymbol"
  ELSE IF RowType(r) = "file" THEN "onFile" ELSE "onDir"

\* the row's click handler, but for the notification
TreeClick(r) ==
  /\ toggleOpen' = IF r \in Parents THEN Toggled(toggleOpen, collapsed, r).open
                   ELSE toggleOpen
  /\ collapsed' = IF r \in Parents THEN Toggled(toggleOpen, collapsed, r).coll
                  ELSE collapsed
  /\ rowActive' = Activated(rowActive, activeRow, r)
  /\ activeRow' = r

\* document.querySelector on data-node-id: the first row with the key
RowOf(k) ==
  IF k \in TreeKeys
  THEN CHOOSE r \in TreeRows :
         RowKey(r) = k /\ \A q \in TreeRows : RowKey(q) = k => r <= q
  ELSE 0

\* Tree.expandToNode(nodeId)
TreeExpandToNode(k) ==
  IF RowOf(k) = 0
  THEN UNCHANGED treeVars
  ELSE /\ toggleOpen' = Expanded(toggleOpen, collapsed, Ancestors(RowOf(k))).open
       /\ collapsed' = Expanded(toggleOpen, collapsed, Ancestors(RowOf(k))).coll
       /\ rowActive' = Activated(rowActive, activeRow, RowOf(k))
       /\ activeRow' = RowOf(k)

notTree == <<graphVars, stack, codeVars, detailsVars, searchVars, navVars>>

\* a click on a tree row; was: the row active before, shut: whether the click
\* collapsed the row
RowClick(r) ==
  /\ TreeClick(r)
  /\ ev' = [name |-> "rowClick", arg |-> r, was |-> activeRow,
            shut |-> {r} \cap toggleOpen, notified |-> Callback(r)]
  /\ UNCHANGED notTree

\* a call of Tree.expandToNode from outside the module; was: the row active
\* before, shut: the ancestors' lists that were collapsed
CallExpandToNode(k) ==
  /\ TreeExpandToNode(k)
  /\ ev' = [name |-> "expandToNode", arg |-> k, was |-> activeRow,
            shut |-> IF RowOf(k) = 0 THEN {} ELSE Ancestors(RowOf(k)) \cap collapsed,
            notified |-> "none"]
  /\ UNCHANGED notTree

\* the tree alone
NextTree ==
  \/ \E r \in TreeRows : RowClick(r)
  \/ \E k \in TreeKeys \cup {GhostId} : CallExpandToNode(k)

SpecTree == Init /\ [][NextTree]_vars

(* ---------------------------- search.js -------------------------------- *)

\* hide(): the dropdown hidden and emptied
SearchHide ==
  /\ resultsHidden' = TRUE
  /\ resultsShown' = NoResults

\* show(items) for the answer to request r: the items, or "No results"
SearchShow(r, kind) ==
  /\ resultsHidden' = FALSE
  /\ resultsShown' = [kind |-> kind, q |-> r.q, seq |-> r.seq]

notSearch == <<graphVars, stack, codeVars, detailsVars, treeVars, navVars>>

\* an input event that leaves the trimmed value q in the box
Input(q) ==
  /\ inputValue' = q
  /\ IF q = Null
     THEN /\ debounceTimer' = NoTimer
          /\ SearchHide
          /\ UNCHANGED searches
     ELSE /\ searches < MaxSearches
          /\ searches' = searches + 1
          /\ debounceTimer' = [q |-> q, seq |-> searches + 1]
          /\ UNCHANGED <<resultsHidden, resultsShown>>
  /\ ev' = [name |-> "input", arg |-> q]
  /\ UNCHANGED searchReqs
  /\ UNCHANGED notSearch

\* the Escape key in the box
Escape ==
  /\ inputValue' = Null
  /\ SearchHide
  /\ ev' = [name |-> "escape", arg |-> Null]
  /\ UNCHANGED <<debounceTimer, searchReqs, searches>>
  /\ UNCHANGED notSearch

\* a click outside #search-container
ClickElsewhere ==
  /\ SearchHide
  /\ ev' = [name |-> "clickElsewhere", arg |-> Null]
  /\ UNCHANGED <<inputValue, debounceTimer, searchReqs, searches>>
  /\ UNCHANGED notSearch

\* the timeout fires 300 ms after the last input event: API.search(q) is sent
TimerFires ==
  /\ debounceTimer # NoTimer
  /\ searchReqs' = Append(searchReqs, debounceTimer)
  /\ debounceTimer' = NoTimer
  /\ ev' = [name |-> "timer", arg |-> debounceTimer.q]
  /\ UNCHANGED <<inputValue, searches, resultsHidden, resultsShown>>
  /\ UNCHANGED notSearch

\* the answer to request i arrives: items, an empty list, or an error
SearchArrives(i, out) ==
  /\ i \in DOMAIN searchReqs
  /\ IF out = "failed" THEN SearchHide ELSE SearchShow(searchReqs[i], out)
  /\ searchReqs' = RemoveAt(searchReqs, i)
  /\ ev' = [name |-> "searchArrives", arg |-> searchReqs[i].q]
  /\ UNCHANGED <<inputValue, debounceTimer, searches>>
  /\ UNCHANGED notSearch

\* a click on an item of the dropdown, but for the notification: the box
\* takes the item's name, which matches the query the item answers
ResultClick ==
  /\ ~resultsHidden
  /\ resultsShown.kind = "items"
  /\ inputValue' = resultsShown.q
  /\ SearchHide
  /\ ev' = [name |-> "resultClick", arg |-> resultsShown.q]
  /\ UNCHANGED <<debounceTimer, searchReqs, searches>>
  /\ UNCHANGED notSearch

\* the search box alone
NextSearch ==
  \/ \E q \in Queries \cup {Null} : Input(q)
  \/ Escape
  \/ ClickElsewhere
  \/ TimerFires
  \/ \E i \in 1..MaxSearches : \E out \in {"items", "none", "failed"} :
       SearchArrives(i, out)
  \/ ResultClick

SpecSearch == Init /\ [][NextSearch]_vars

(* ---------------------------- app.js: navigation ----------------------- *)

\* what /api/symbol answers for a loaded symbol
SymFile(id)  == DataNode(id).filePath
SymRange(id) == IF id <= 2 THEN <<1, 1>> ELSE <<2, 3>>

Copies(x, n) == [j \in 1..n |-> x]

\* navigateToSymbol(id), the graph's share: Graph.selectNode(id).  The chain
\* of SpecApp re-enters navigateToSymbol from here; in an engine it is cut
\* when the call stack is exhausted, and the frames still on the stack then
\* go on, each with the statements after this one and all with the same id.
NavGraph(id, name) ==
  /\ inited
  /\ Select(id)
  /\ log' = Notify(hasOnSelect, id) \o Recenter(heap, nodeMap, id)
  /\ op' = [name |-> name, arg |-> id, changed |-> id # selectedId]
  /\ UNCHANGED <<inited, dataVars, heap, isFiltered, focusId, drawVars, curSim,
                 sims, gestures, dragCount, hostVars, stack>>

\* navigateToSymbol(id) past Tree.expandToNode, in each of n frames:
\* Details.showSymbol(id) and the request API.symbol(id) that it awaits
NavPanels(id, n) ==
  /\ detailsHidden' = FALSE
  /\ detailsContent' = [view |-> "loading", call |-> "none", arg |-> Null]
  /\ detailsReqs' = detailsReqs \o Copies([call |-> "symbol", arg |-> id], n)
  /\ detailsCalls' = detailsCalls + n
  /\ detailsLast' = [view |-> "rendered", call |-> "symbol", arg |-> id]
  /\ navReqs' = navReqs \o Copies([id |-> id, hid |-> FALSE], n)
  /\ navs' = navs + 1
  /\ UNCHANGED <<codeVars, searchVars>>

\* a click on a symbol row of the tree: the row's handler, whose onSymbol is
\* navigateToSymbol, which comes back to the tree with expandToNode
TreeSymbolClick(r) ==
  /\ RowType(r) = "symbol"
  /\ navs < MaxNavs
  /\ NavGraph(RowKey(r), "treeClick")
  /\ LET t == IF r \in Parents THEN Toggled(toggleOpen, collapsed, r)
              ELSE [open |-> toggleOpen, coll |-> collapsed]
         x == Expanded(t.open, t.coll, Ancestors(RowOf(RowKey(r))))
     IN /\ toggleOpen' = x.open
        /\ collapsed' = x.coll
        /\ rowActive' = Activated(Activated(rowActive, activeRow, r), r,
                                  RowOf(RowKey(r)))
        /\ activeRow' = RowOf(RowKey(r))
  /\ \E n \in 1..MaxFrames : NavPanels(RowKey(r), n)
  /\ ev' = [name |-> "treeClick", arg |-> RowKey(r), hid |-> FALSE]

\* a click on a node of the graph, while the graph panel is shown: _select,
\* whose onSelect is navigateToSymbol
GraphNodeClick(i) ==
  /\ ~graphPanelHidden
  /\ i \in DOMAIN dispNodes
  /\ navs < MaxNavs
  /\ NavGraph(heap[dispNodes[i]].id, "click")
  /\ TreeExpandToNode(heap[dispNodes[i]].id)
  /\ \E n \in 1..MaxFrames : NavPanels(heap[dispNodes[i]].id, n)
  /\ ev' = [name |-> "graphClick", arg |-> heap[dispNodes[i]].id, hid |-> FALSE]

\* the answer of API.symbol to request i arrives and navigateToSymbol
\* resumes: Code.show of the symbol's file and lines, or nothing on an error;
\* hid: the request was pending when the code panel was hidden
NavArrives(i, ok) ==
  /\ i \in DOMAIN navReqs
  /\ ok => navReqs[i].id \in 1..MaxNodes
  /\ navReqs' = RemoveAt(navReqs, i)
  /\ IF ok
     THEN CodeShow(SymFile(navReqs[i].id), SymRange(navReqs[i].id)[1],
                   SymRange(navReqs[i].id)[2])
     ELSE UNCHANGED codeVars
  /\ ev' = [name |-> "navArrives", arg |-> navReqs[i].id, hid |-> navReqs[i].hid]
  /\ UNCHANGED <<graphVars, stack, detailsVars, treeVars, searchVars, navs>>

\* the back-to-graph button of the code panel's header
BackToGraph ==
  /\ ~codePanelHidden
  /\ CodeHide
  /\ navReqs' = [i \in DOMAIN navReqs |-> [navReqs[i] EXCEPT !.hid = TRUE]]
  /\ ev' = [name |-> "backToGraph", arg |-> Null, hid |-> FALSE]
  /\ UNCHANGED <<graphVars, stack, detailsVars, treeVars, searchVars, navs>>

\* navigation from the tree with a server that answers every request
NextNavOk ==
  \/ ~inited /\ \E data \in ScenarioData : GraphInit(data, TRUE)
  \/ \E r \in TreeRows : TreeSymbolClick(r)
  \/ \E i \in 1..(MaxNavs * MaxFrames) : NavArrives(i, TRUE)
  \/ \E i \in 1..(MaxNavs * MaxFrames) : SourceArrives(i, TRUE)
  \/ \E i \in 1..(MaxNavs * MaxFrames) : SymbolsArrive(i)
  \/ \E i \in 1..(MaxNavs * MaxFrames) : DetailsArrives(i, TRUE)

SpecNavOk == Init /\ [][NextNavOk]_vars

\* navigation from the tree and the graph and the back-to-graph button, with
\* the answers of API.symbol to navigateToSymbol (or its errors) in any order;
\* the files load, and the requests of the details panel stay pending
NextNav ==
  \/ ~inited /\ \E data \in ScenarioData : GraphInit(data, TRUE)
  \/ \E r \in TreeRows : TreeSymbolClick(r)
  \/ \E i \in 1..MaxNodes : GraphNodeClick(i)
  \/ BackToGraph
  \/ \E i \in 1..(MaxNavs * MaxFrames) : \E ok \in BOOLEAN : NavArrives(i, ok)
  \/ \E i \in 1..(MaxNavs * MaxFrames) : SourceArrives(i, TRUE)
  \/ \E i \in 1..(MaxNavs * MaxFrames) : SymbolsArrive(i)

SpecNav == Init /\ [][NextNav]_vars

\* clicks and calls that select
SelectOps ==
  \/ \E i \in 1..MaxNodes : NodeClick(i)
  \/ BackgroundClick
  \/ \E id \in Ids \cup {Null} : SelectNode(id)

\* calls that change the displayed subset
FilterOps ==
  \/ \E id \in Ids : FilterNeighborhood(id)
  \/ ResetView

\* the simulation's timer
TimerOps ==
  \/ \E s \in 1..MaxDraws : Tick(s)
  \/ \E s \in 1..MaxDraws : Cool(s)

\* drag events
DragOps ==
  \/ \E o \in DOMAIN heap : DragStart(o)
  \/ \E o \in DOMAIN heap : Dragging(o)
  \/ \E o \in DOMAIN heap : DragEnd(o)

\* filtering, resetting, the timer and drag gestures, without selection
NextDrag ==
  \/ ~inited /\ \E data \in ScenarioData : GraphInit(data, TRUE)
  \/ FilterOps
  \/ TimerOps
  \/ DragOps

SpecDrag == Init /\ [][NextDrag]_vars

\* the panel loaded with duplicate node ids
NextDup ==
  \/ ~inited /\ \E data \in DupData : GraphInit(data, TRUE)
  \/ SelectOps
  \/ FilterOps

SpecDup == Init /\ [][NextDup]_vars

\* the whole panel on one data set, wired as app.js wires it
Next ==
  \/ ~inited /\ \E data \in ScenarioData : GraphInit(data, TRUE)
  \/ SelectOps
  \/ FilterOps
  \/ \E p \in Paths : HighlightFile(p)
  \/ TimerOps
  \/ DragOps

Spec == Init /\ [][Next]_vars

\* the panel without drag gestures, with and without an onSelect callback
NextView ==
  \/ ~inited /\ \E data \in ScenarioData : \E cb \in BOOLEAN : GraphInit(data, cb)
  \/ SelectOps
  \/ FilterOps
  \/ \E p \in Paths : HighlightFile(p)
  \/ TimerOps

SpecView == Init /\ [][NextView]_vars

\* filtering and resetting over every data set
NextData ==
  \/ ~inited /\ \E data \in Datasets : GraphInit(data, TRUE)
  \/ FilterOps

SpecData == Init /\ [][NextData]_vars

(* ---------------------------- properties ------------------------------- *)

LoadedIds == {loaded.nodes[i].id : i \in DOMAIN loaded.nodes}

Triples(h, edges) ==
  [i \in DOMAIN edges |->
     <<EndId(h, edges[i].source), EndId(h, edges[i].target), edges[i].kind>>]

LoadedTriples ==
  [i \in DOMAIN loaded.edges |->
     <<loaded.edges[i].source.id, loaded.edges[i].target.id, loaded.edges[i].kind>>]

\* f, the loaded nodes with an edge into f, the loaded nodes with an edge from f
NeighborhoodOf(f) ==
  {f}
    \cup {n \in LoadedIds : \E i \in DOMAIN LoadedTriples :
            LoadedTriples[i][1] = n /\ LoadedTriples[i][2] = f}
    \cup {n \in LoadedIds : \E i \in DOMAIN LoadedTriples :
            LoadedTriples[i][1] = f /\ LoadedTriples[i][2] = n}

EdgesWithin(S) == SelectSeq(LoadedTriples, LAMBDA t : t[1] \in S /\ t[2] \in S)

Metrics(n) ==
  <<n.id, n.name, n.kind, n.filePath, n.pagerank, n.betweenness, n.inDegree,
    n.outDegree>>

MetricsOf(h, nodes) == [i \in DOMAIN nodes |-> Metrics(h[nodes[i]])]

LoadedMetrics == [i \in DOMAIN loaded.nodes |-> Metrics(loaded.nodes[i])]

\* the ids that onSelect was called with, in order
OnSelects(l) ==
  LET calls == SelectSeq(l, LAMBDA e : e.ev = "onSelect")
  IN [i \in DOMAIN calls |-> calls[i].id]

SelectedCount == Cardinality({i \in DOMAIN nodeSelected : nodeSelected[i]})

\* C1: while a filter on a loaded id f is in force, the displayed nodes are
\* exactly f, the loaded nodes with an edge into f and the loaded nodes with an
\* edge from f, each once, and the displayed edges are exactly the loaded edges
\* with both ends among them; this is so whether the filter was entered from
\* the full view or from another filter.
FilterCorrect ==
  (isFiltered /\ focusId \in LoadedIds) =>
     /\ IdsOf(heap, dispNodes) = NeighborhoodOf(focusId)
     /\ Len(dispNodes) = Cardinality(NeighborhoodOf(focusId))
     /\ Triples(heap, dispEdges) = EdgesWithin(NeighborhoodOf(focusId))

\* a second filter in a row, on a node with one neighbour and one displayed edge
FilterAfterFilter ==
  /\ isFiltered
  /\ Len(sims) = 3
  /\ op.name = "filterNeighborhood"
  /\ focusId \in LoadedIds
  /\ Cardinality(IdsOf(heap, dispNodes)) = 2
  /\ Len(dispEdges) >= 1

\* what resetView is to leave behind, s being the simulation it started
Restored(h, master, shown, edges, s) ==
  /\ MetricsOf(h, master) = LoadedMetrics
  /\ MetricsOf(h, shown) = LoadedMetrics
  /\ Triples(h, edges) = LoadedTriples
  /\ \A i \in DOMAIN master : h[master[i]].pos \in {Undef, Seed(s)}
  /\ \A i \in DOMAIN shown : h[shown[i]].pos \in {Undef, Seed(s)}

\* C2: a resetView out of a filter leaves master and displayed nodes equal to
\* the loaded ones by id and metric fields, the edges equal to the loaded ones
\* by (source id, target id, kind), and no node with a position other than the
\* start position the new layout gives a node that has none.
ResetRestoresLoad ==
  [][(isFiltered /\ ResetView) =>
        Restored(heap', allNodes', dispNodes', allEdges', curSim')]_vars

\* C3: while filtered, the focus of the filter is a displayed node and both ends
\* of every displayed edge are displayed nodes.
FilteredInvariant ==
  isFiltered =>
     /\ focusId \in IdsOf(heap, dispNodes)
     /\ \A i \in DOMAIN dispEdges :
          /\ EndId(heap, dispEdges[i].source) \in IdsOf(heap, dispNodes)
          /\ EndId(heap, dispEdges[i].target) \in IdsOf(heap, dispNodes)

\* C4: selectNode with an id that no node has leaves selectedId and the
\* selected/highlighted styling as they were and does not call onSelect.
SelectUnknownIsNoop ==
  [][\A id \in Ids :
       (SelectNode(id) /\ id \notin IdsOf(heap, allNodes)) =>
          /\ UNCHANGED <<selectedId, nodeSelected, edgeHighlighted>>
          /\ OnSelects(log') = <<>>]_vars

\* C5: filterNeighborhood with an id that no node has changes nothing of the
\* filter flag, the display, the simulation, the status line, the reset button
\* and selectedId, and does not call onSelect.
FilterUnknownIsNoop ==
  [][\A id \in Ids :
       (FilterNeighborhood(id) /\ id \notin IdsOf(heap, allNodes)) =>
          /\ UNCHANGED <<isFiltered, dispNodes, dispEdges, curSim, sims, status,
                         resetHidden, selectedId>>
          /\ OnSelects(log') = <<>>]_vars

\* C6: at most one displayed node carries the "selected" styling.
SelectionExclusive == SelectedCount <= 1

\* a click that moved the selection from one displayed node to another
SelectionMoved ==
  /\ op.name = "click"
  /\ op.changed
  /\ SelectedCount = 1
  /\ Len(dispNodes) >= 2
  /\ \E i \in DOMAIN dispNodes : nodeSelected[i] /\ heap[dispNodes[i]].id = op.arg

\* C7: a resetView out of a filter ends unfiltered, with the full graph
\* displayed and nothing selected.
ResetUnselects ==
  [][(isFiltered /\ ResetView) =>
        /\ ~isFiltered'
        /\ IdsOf(heap', dispNodes') = LoadedIds
        /\ selectedId' = Null]_vars

\* C8: a resetView while not filtered changes nothing of the master
\* collection, the index, the displayed objects, the simulations, selectedId,
\* the styling, the status line and the reset button.
ResetUnfilteredIsNoop ==
  [][(~isFiltered /\ ResetView) =>
        UNCHANGED <<heap, allNodes, allEdges, nodeMap, selectedId, isFiltered,
                    dispNodes, dispEdges, nodeSelected, edgeHighlighted,
                    circleDim, labelHidden, edgeDim, curSim, sims, gestures,
                    resetHidden, status>>]_vars

\* resetView has run on the full view, with a node selected and a file dimmed
ResetOnFullView ==
  /\ op.name = "resetView"
  /\ log = <<>>
  /\ ~isFiltered
  /\ selectedId # Null
  /\ \E i \in DOMAIN circleDim : circleDim[i]
  /\ \E s \in DOMAIN sims : sims[s].running

\* C9: a step that changes selectedId to a non-null id calls onSelect exactly
\* once within the step, with the new id.
NotifiesOnce ==
  [][(selectedId' # selectedId /\ selectedId' # Null /\ hasOnSelect) =>
        OnSelects(log') = <<selectedId'>>]_vars

\* a click, and a filter, that changed the selection and notified once
ClickNotified ==
  /\ op.name \in {"click", "filterNeighborhood", "selectNode"}
  /\ op.changed
  /\ hasOnSelect
  /\ selectedId # Null
  /\ OnSelects(log) = <<selectedId>>

\* C10, as claimed: a step that changes selectedId from an id to null calls the
\* notification exactly once, with null.
DeselectNotifies ==
  [][(selectedId # Null /\ selectedId' = Null /\ hasOnSelect) =>
        OnSelects(log') = <<Null>>]_vars

\* C10, amended: a step that changes selectedId from an id to null calls no
\* notification.
DeselectIsSilent ==
  [][(selectedId # Null /\ selectedId' = Null) => OnSelects(log') = <<>>]_vars

\* a background click that cleared a selection
BackgroundDeselected ==
  /\ op.name = "background"
  /\ op.changed
  /\ hasOnSelect
  /\ selectedId = Null
  /\ SelectedCount = 0
  /\ log = <<>>

SelectKeepsFilter ==
  [][(isFiltered /\ SelectOps) =>
        UNCHANGED <<isFiltered, focusId, dispNodes, dispEdges, heap, allNodes,
                    allEdges, nodeMap, curSim, sims, circleDim, labelHidden,
                    edgeDim, resetHidden, status>>]_vars

\* while filtered, the selection has moved off the focus and then been cleared
SelectedWhileFiltered ==
  /\ isFiltered
  /\ op.name \in {"background", "selectNode"}
  /\ op.changed
  /\ selectedId = Null
  /\ focusId \in LoadedIds
  /\ Len(dispNodes) = 2

\* the master node objects, field by field
MasterObjects(h, master) == [i \in DOMAIN master |-> h[master[i]]]

\* C13: a filterNeighborhood call, and every tick and cooling of the layout
\* while filtered, leave the master node list, the master edge list, every
\* field of every master node object and the id index as they were; the nodes
\* a filterNeighborhood call displays are objects that did not exist before it.
FilterKeepsMaster ==
  [][((\E id \in Ids : FilterNeighborhood(id)) \/ (isFiltered /\ TimerOps)) =>
        /\ UNCHANGED <<allNodes, allEdges, nodeMap>>
        /\ MasterObjects(heap', allNodes') = MasterObjects(heap, allNodes)
        /\ Range(dispNodes') \cap Range(allNodes') = {}
        /\ (\E id \in Ids : FilterNeighborhood(id)) =>
              Range(dispNodes') \cap DOMAIN heap = {}]_vars

\* the layout of a neighbourhood has moved its nodes, the master nodes having
\* been moved by the layout of the full view before
SubsetLaidOut ==
  /\ isFiltered
  /\ Len(dispNodes) = 2
  /\ \A i \in DOMAIN dispNodes : heap[dispNodes[i]].pos = Ticked(curSim)
  /\ \A i \in DOMAIN allNodes : heap[allNodes[i]].pos = Ticked(1)

\* C14: once init has run, the reset button is shown exactly while isFiltered
\* is true (the page loads with the button hidden).
ResetButtonTracksFilter == inited => (resetHidden <=> ~isFiltered)

\* the button has been shown by a filter and hidden again by a reset
ButtonHiddenAgain ==
  /\ op.name = "resetView"
  /\ log = <<DrawEvent>>
  /\ ~isFiltered
  /\ resetHidden

\* C15: once init has run, the status line's node count and edge count are
\* the numbers of displayed nodes and displayed edges, and it carries the
\* "Neighborhood:" prefix exactly while isFiltered is true.
StatusShowsDisplayed ==
  inited =>
     /\ status.nodes = Len(dispNodes)
     /\ status.edges = Len(dispEdges)
     /\ status.neighborhood = isFiltered

\* C16: only the simulation _simulation refers to is ever running: at most one
\* simulation runs at a time, and one that filterNeighborhood or resetView has
\* replaced is stopped and stays stopped, whatever drag events follow.
OnlyCurrentRuns == \A s \in DOMAIN sims : sims[s].running => s = curSim

\* a gesture begun on a node of a replaced draw is still in flight and has
\* moved its node, the replaced simulation is stopped and the new one runs
GestureOutlivesDraw ==
  /\ \E o \in gestures : o[1] < curSim /\ heap[o].pin = Pointer
  /\ curSim >= 2
  /\ ~sims[1].running
  /\ sims[curSim].running

LoadedDangling ==
  {i \in DOMAIN LoadedTriples :
     LoadedTriples[i][1] \notin LoadedIds \/ LoadedTriples[i][2] \notin LoadedIds}

\* C17: once init has run, every displayed edge (the array that is drawn is
\* the array the link force is given) has both ends bound to displayed node
\* objects, and so both its ids in the displayed node set; every draw, whatever
\* edges of the input name an id no node has, completes with a simulation
\* running over the displayed nodes.
DanglingExcluded ==
  inited =>
     /\ \A i \in DOMAIN dispEdges :
          /\ dispEdges[i].source.ref /\ dispEdges[i].source.obj \in Range(dispNodes)
          /\ dispEdges[i].target.ref /\ dispEdges[i].target.obj \in Range(dispNodes)
          /\ EndId(heap, dispEdges[i].source) \in IdsOf(heap, dispNodes)
          /\ EndId(heap, dispEdges[i].target) \in IdsOf(heap, dispNodes)
     /\ curSim = Len(sims)
     /\ sims[curSim].nodes = dispNodes
     /\ log # <<>> => log[1] = DrawEvent

\* the input has a dangling edge next to a whole one; the whole one is shown
DanglingDropped ==
  /\ inited
  /\ LoadedDangling # {}
  /\ Len(loaded.edges) = 2
  /\ Len(dispEdges) = 1
  /\ op.name \in {"filterNeighborhood", "resetView"}

\* C18: an init whose node list holds the same id twice establishes no
\* displayed graph: no node is displayed, no simulation is created and no
\* node is put in the id index.
DuplicateIdsFatal ==
  (inited /\ Cardinality(LoadedIds) < Len(loaded.nodes)) =>
     /\ dispNodes = <<>>
     /\ sims = <<>>
     /\ DOMAIN nodeMap = {}

\* C19: when a click, a selectNode or a filterNeighborhood has selected x (an
\* id, or null), a displayed node carries the "selected" styling exactly if its
\* id is x, and a displayed edge carries the "highlighted" styling exactly if x
\* is not null and is the id at its source or at its target; after a select of
\* null no node is selected and no edge is highlighted.
SelectStyles ==
  (op.name \in {"click", "background", "selectNode", "filterNeighborhood"}) =>
     /\ selectedId = op.arg
     /\ \A i \in DOMAIN dispNodes :
          nodeSelected[i] <=> heap[dispNodes[i]].id = op.arg
     /\ \A i \in DOMAIN dispEdges :
          edgeHighlighted[i] <=>
             /\ op.arg # Null
             /\ op.arg \in {Triples(heap, dispEdges)[i][1], Triples(heap, dispEdges)[i][2]}
     /\ op.arg = Null =>
          /\ \A i \in DOMAIN dispNodes : ~nodeSelected[i]
          /\ \A i \in DOMAIN dispEdges : ~edgeHighlighted[i]

\* selectNode has moved the selection to the node at the target end of a
\* displayed edge, and that edge is highlighted
TargetSelected ==
  /\ op.name = "selectNode"
  /\ op.changed
  /\ op.arg # Null
  /\ \E i \in DOMAIN dispEdges :
       /\ edgeHighlighted[i]
       /\ Triples(heap, dispEdges)[i][2] = op.arg

\* C20: highlightFile changes nothing but circle opacity, label visibility and
\* edge opacity: selectedId, the filter flag and focus, the displayed nodes and
\* edges, the master collection with its objects and index, the simulations
\* and the selected/highlighted styling stay as they were, and nothing is
\* notified.
HighlightFileOrthogonal ==
  [][(\E p \in Paths : HighlightFile(p)) =>
        /\ UNCHANGED <<selectedId, isFiltered, focusId, dispNodes, dispEdges,
                       heap, allNodes, allEdges, nodeMap, curSim, sims,
                       nodeSelected, edgeHighlighted, resetHidden, status>>
        /\ log' = <<>>]_vars

\* a file has been highlighted while a node of another file was selected in a
\* neighbourhood: it is dimmed and still selected
DimmedButSelected ==
  /\ op.name = "highlightFile"
  /\ isFiltered
  /\ selectedId # Null
  /\ \E i \in DOMAIN dispNodes : nodeSelected[i] /\ circleDim[i]
  /\ \E i \in DOMAIN dispEdges : edgeHighlighted[i] /\ edgeDim[i]

NothingDimmed(cd, ed) ==
  /\ \A i \in DOMAIN cd : ~cd[i]
  /\ \A i \in DOMAIN ed : ~ed[i]

\* C21: every resetView, filterNeighborhood, node click and selectNode of an id
\* leaves no displayed node and no displayed edge dimmed.
ViewChangeClearsDim ==
  [][(\/ ResetView
      \/ \E id \in Ids : FilterNeighborhood(id)
      \/ \E i \in 1..MaxNodes : NodeClick(i)
      \/ \E id \in Ids : SelectNode(id)) =>
        NothingDimmed(circleDim', edgeDim')]_vars

\* the metric fields the loaded node with this id had
LoadedMetricsOf(id) ==
  {Metrics(loaded.nodes[i]) : i \in {j \in DOMAIN loaded.nodes : loaded.nodes[j].id = id}}

\* C22: every master node object and every displayed node object has the id of
\* a loaded node and that node's name, kind, filePath, pagerank, betweenness,
\* inDegree and outDegree.
MetricsAsLoaded ==
  \A o \in Range(allNodes) \cup Range(dispNodes) :
     LoadedMetricsOf(heap[o].id) = {Metrics(heap[o])}

\* the master collection has been replaced by the clones of a reset, and the
\* layout has moved them
MasterReplaced ==
  /\ ~isFiltered
  /\ curSim = 3
  /\ op.name = "resetView"
  /\ \A o \in Range(allNodes) : o[1] = 3 /\ heap[o].pos = Ticked(3)

\* the viewport moves of a call
Centers(l) == SelectSeq(l, LAMBDA e : e.ev = "center")

\* C23: whenever selectNode(id) moves the viewport, it moves it to the current
\* position of the node object that is displayed for id.
RecentersOnDisplayed ==
  [][\A id \in Ids :
       (SelectNode(id) /\ Centers(log') # <<>>) =>
          \E i \in DOMAIN dispNodes :
             /\ heap[dispNodes[i]].id = id
             /\ Centers(log')[1].obj = dispNodes[i]
             /\ Centers(log')[1].pos = heap[dispNodes[i]].pos]_vars

\* C25: in every state a displayed node carries the "selected" styling exactly
\* if its id is selectedId, and a displayed edge the "highlighted" styling
\* exactly if selectedId is not null and is the id at one of its ends.
StylingReflectsSelection ==
  /\ \A i \in DOMAIN dispNodes :
       nodeSelected[i] <=> heap[dispNodes[i]].id = selectedId
  /\ \A i \in DOMAIN dispEdges :
       edgeHighlighted[i] <=>
          /\ selectedId # Null
          /\ selectedId \in {Triples(heap, dispEdges)[i][1], Triples(heap, dispEdges)[i][2]}

\* the energy target of the current simulation
CurTarget(ss, c) == IF c = 0 THEN 0 ELSE ss[c].alphaTarget

\* C26: a drag-end clears the pin of its node; after every step that leaves no
\* gesture in progress the current simulation's energy target is 0; a
\* drag-start with no other gesture in progress raises the target, and a
\* drag-end that leaves another gesture in progress does not lower it.
DragReleaseRests ==
  [][/\ \A o \in DOMAIN heap :
          DragEnd(o) =>
             /\ o \in DOMAIN heap' => heap'[o].pin = Undef
             /\ gestures' # {} => CurTarget(sims', curSim') = CurTarget(sims, curSim)
     /\ \A o \in DOMAIN heap :
          (DragStart(o) /\ gestures = {}) => CurTarget(sims', curSim') = 3
     /\ gestures' = {} => CurTarget(sims', curSim') = 0]_vars

PosPin(h, nodes) == [i \in DOMAIN nodes |-> <<h[nodes[i]].pos, h[nodes[i]].pin>>]

\* C27: a displayed node is pinned only by a gesture of its own that is in
\* progress, so a gesture begun before a filterNeighborhood or resetView pins
\* no node of the new display; and a drag or drag-end event of such a gesture
\* changes the position and the pin of no displayed node.
StaleDragInert ==
  [][/\ \A d \in Range(dispNodes') : heap'[d].pin # Undef => d \in gestures'
     /\ \A o \in DOMAIN heap :
          ((Dragging(o) \/ DragEnd(o)) /\ o \notin Range(dispNodes)) =>
             PosPin(heap', dispNodes') = PosPin(heap, dispNodes)]_vars

\* C28: the simulation created by a filterNeighborhood or an effective
\* resetView is given node objects that did not exist before the call and are
\* bound to no other simulation, and each of them starts at the fresh start
\* position of that simulation, with zero velocity.
FreshLayouts ==
  [][(Len(sims) >= 1 /\ Len(sims') > Len(sims)) =>
        LET s == Len(sims')
        IN /\ Range(sims'[s].nodes) \cap DOMAIN heap = {}
           /\ \A t \in 1..(s - 1) :
                Range(sims'[t].nodes) \cap Range(sims'[s].nodes) = {}
           /\ \A o \in Range(sims'[s].nodes) :
                heap'[o].pos = Seed(s) /\ heap'[o].vel = "zero"]_vars

AllBare(edges) ==
  \A i \in DOMAIN edges : ~edges[i].source.ref /\ ~edges[i].target.ref

\* C29: in every state, the edges filterNeighborhood would hand to _draw for
\* any id, and the edges resetView would hand to it, have a bare id at both
\* ends, whether or not the master edge they are made from has been resolved
\* to node objects, and the ids are those of the loaded edge: the edges of a
\* neighbourhood are the loaded edges within the neighbour-id set, those of a
\* reset all loaded edges, in order.
EdgesRenormalized ==
  inited =>
     /\ \A id \in Ids :
          LET nb == Neighbors(heap, allEdges, id)
              es == SubEdges(heap, allEdges, nb)
          IN /\ AllBare(es)
             /\ Triples(heap, es) = EdgesWithin(nb)
     /\ LET fresh == [i \in DOMAIN allEdges |-> NormalizeEdge(heap, allEdges[i])]
        IN /\ AllBare(fresh)
           /\ Triples(heap, fresh) = LoadedTriples

\* a neighbourhood has been drawn from a master list that holds an edge
\* resolved to node objects and an edge left with bare ids
MixedMasterFiltered ==
  /\ isFiltered
  /\ op.name = "filterNeighborhood"
  /\ \E i \in DOMAIN allEdges : allEdges[i].source.ref /\ allEdges[i].target.ref
  /\ \E i \in DOMAIN allEdges : ~allEdges[i].target.ref
  /\ Len(dispEdges) = 1

\* C30: while filtered, selectNode(id) with the id of a master node that is
\* not displayed leaves no displayed node with the "selected" styling and no
\* displayed edge "highlighted", and leaves the displayed nodes and edges as
\* they were.
ForeignSelectHighlightsNothing ==
  [][\A id \in Ids :
       (/\ SelectNode(id)
        /\ isFiltered
        /\ id \in IdsOf(heap, allNodes)
        /\ id \notin IdsOf(heap, dispNodes)) =>
          /\ \A i \in DOMAIN nodeSelected' : ~nodeSelected'[i]
          /\ \A i \in DOMAIN edgeHighlighted' : ~edgeHighlighted'[i]
          /\ UNCHANGED <<dispNodes, dispEdges, isFiltered, focusId, heap>>]_vars

\* selectNode has returned for a master node outside the displayed
\* neighbourhood, which holds an edge
ForeignSelected ==
  /\ op.name = "selectNode"
  /\ isFiltered
  /\ op.arg \in IdsOf(heap, allNodes)
  /\ op.arg \notin IdsOf(heap, dispNodes)
  /\ selectedId = op.arg
  /\ Len(dispEdges) = 1
  /\ SelectedCount = 0

\* C24: every user selection event settles: the chain of calls it starts
\* comes to an end, with nothing left running.
EventSettles == (stack # <<>>) ~> (stack = <<>>)

\* C32: a stale file load never overwrites a newer one: a response of the load
\* of a file that arrives, with success or with an error, while a later
\* show/showFile has made another file the current one leaves the code table
\* as it is.
StaleLoadInert ==
  [][(/\ ev'.name \in {"source", "sourceFailed", "symbols"}
      /\ currentFile # NoFile
      /\ currentFile # ev'.arg)
     => codeTable' = codeTable]_vars

\* C33: the last show wins: once every load has completed, all of them with
\* success, the code table holds the source of the file of the most recent
\* show/showFile call and the focused rows are exactly the range of that call
\* (none for showFile), also when the call found a load of its file pending.
LastShowWins ==
  (shows > 0 /\ loads = <<>>)
    => codeTable = Rendered(lastCall.file, lastCall.start, lastCall.end)

\* C34: a failed load is retried: a show of the file whose error row the table
\* displays loads the file again, and show takes its same-file branch, without
\* a load, only when the table holds the source of that file.
FailedLoadRetried ==
  [][ev'.name = "show"
     => /\ (codeTable.kind = "error" /\ codeTable.file = ev'.arg) => ev'.full
        /\ ~ev'.full => (codeTable.kind = "source" /\ codeTable.file = ev'.arg)]_vars

\* C35: hide resets the viewer: hide leaves the graph panel visible and the
\* code panel hidden, a load that was in flight at a hide never renders source
\* into the table, and a show that follows a hide, with no other call between,
\* loads and renders its file in full.
HideResets ==
  [][/\ ev'.name = "hide" => (~graphPanelHidden' /\ codePanelHidden')
     /\ ev'.hid => ~ev'.rendered
     /\ (ev'.name = "show" /\ currentFile = NoFile) => ev'.full]_vars

\* C37: the details panel shows the latest request: once every response has
\* arrived, the panel holds the content (or the error) of the most recent
\* showSymbol/showFile call, whatever the order the responses came in.
DetailsShowLatest ==
  (detailsCalls > 0 /\ detailsReqs = <<>>)
    => (detailsContent.call = detailsLast.call /\ detailsContent.arg = detailsLast.arg)

\* C38: the tree has a single active row: after any clicks and expandToNode
\* calls at most one row has the class "active"; a click makes it the clicked
\* row, an expandToNode of an id with a row makes it that row, and an
\* expandToNode of an id without a row leaves it where it was.
SingleActiveRow ==
  [][/\ Cardinality(rowActive') <= 1
     /\ ev'.name = "rowClick" => rowActive' = {ev'.arg}
     /\ (ev'.name = "expandToNode" /\ RowOf(ev'.arg) # 0)
          => rowActive' = {RowOf(ev'.arg)}
     /\ (ev'.name = "expandToNode" /\ RowOf(ev'.arg) = 0)
          => rowActive' = rowActive]_vars

\* an expandToNode has moved the class "active" from the row that had it to
\* another row
ActiveRowMoved ==
  /\ ev.name = "expandToNode"
  /\ RowOf(ev.arg) # 0
  /\ ev.was # 0
  /\ ev.was # RowOf(ev.arg)
  /\ rowActive = {RowOf(ev.arg)}
  /\ activeRow = RowOf(ev.arg)

\* C39: the expansion state is consistent: in every state the toggle of a row
\* with children has "open" exactly when its children list is not
\* "collapsed", and after expandToNode of an id with a row no children list
\* above that row is collapsed.
ExpansionConsistent ==
  /\ [](\A r \in Parents : r \in toggleOpen <=> r \notin collapsed)
  /\ [][(ev'.name = "expandToNode" /\ RowOf(ev'.arg) # 0)
          => Ancestors(RowOf(ev'.arg)) \cap collapsed' = {}]_vars

\* expandToNode has opened two collapsed lists above its row, and the row's
\* own list is still collapsed
AncestorsReopened ==
  /\ ev.name = "expandToNode"
  /\ RowOf(ev.arg) = 3
  /\ Cardinality(ev.shut) = 2
  /\ collapsed = {3}
  /\ toggleOpen = Parents \ {3}

\* C40: clearing the search keeps the dropdown closed: while the box is empty
\* (emptied by an input event or by Escape) the dropdown is hidden, whatever
\* timeout or request was pending, and the results of an older query never
\* replace the results of a newer one.
ClearedStaysClosed ==
  /\ [](inputValue = Null => resultsHidden)
  /\ [][(resultsShown.kind # "empty" /\ resultsShown'.kind # "empty")
          => resultsShown'.seq >= resultsShown.seq]_vars

\* C31: the code viewer follows the latest navigation: once every request of
\* the navigations made has been answered and every file load has completed,
\* the viewer shows the file and the line range of the symbol the graph has
\* as selectedId, the symbol of the most recent navigation, whatever the order
\* of the answers.
ViewerFollowsNavigation ==
  (navs > 0 /\ navReqs = <<>> /\ loads = <<>>)
    => /\ selectedId \in 1..MaxNodes
       /\ codeHeader = SymFile(selectedId)
       /\ codeTable = Rendered(SymFile(selectedId), SymRange(selectedId)[1],
                               SymRange(selectedId)[2])

\* C36: back-to-graph is sticky: the code panel, once hidden with the button,
\* is opened again only by a navigation the user starts afterwards; the answer
\* to a navigateToSymbol that was pending at the hide leaves the panel hidden.
BackToGraphSticky ==
  [][/\ (ev'.name = "navArrives" /\ ev'.hid) => codePanelHidden' = codePanelHidden
     /\ (codePanelHidden /\ ~codePanelHidden')
          => (ev'.name = "navArrives" /\ ~ev'.hid)]_vars

====
